---- MODULE Spec2Model ----
(***************************************************************************)
(* A model of src/tasks.ts of rls-vscode: the configuration writer        *)
(* (addBuildCommandsOnOpeningProject, addBuildCommandsByUser,             *)
(* addBuildCommands, createDefaultTaskConfig) and the task provider       *)
(* (activateTaskProvider, deactivateTaskProvider, getCargoTasks,          *)
(* createTask), together with the parts of the host (configuration store, *)
(* notifications, task-provider registry) that they call.                 *)
(***************************************************************************)
EXTENDS Integers, Sequences, FiniteSets, TLC

VARIABLES
    store,              \* host configuration: key -> JS value
    updateLog,          \* every config.update(key, value, isGlobal) call, in order
    overwrote,          \* a fulfilled update replaced a "tasks" value that was present
    inv,                \* the invocations of the two exported writer functions
    taskProvider,       \* the module-level handle: 0 is null, n the n-th registration
    hostRegistrations,  \* the host's task-provider registry, one record per register call
    rootPath,           \* workspace.rootPath
    consoleLogs,        \* number of console.log lines written by the provider half
    consoleErrors,      \* number of console.error lines written by the provider half
    calls,              \* number of provider-side calls made so far
    run,                \* activateTaskProvider calls since the last deactivateTaskProvider
    runRegistered,      \* registerTaskProvider calls made by those calls
    lastCall,           \* what the last provideTasks call did
    provided            \* every <<root, result>> pair provideTasks produced

writerVars == <<store, updateLog, overwrote, inv>>
providerVars == <<taskProvider, hostRegistrations, rootPath, consoleLogs,
                  consoleErrors, calls, run, runRegistered, lastCall, provided>>
vars == <<store, updateLog, overwrote, inv, taskProvider, hostRegistrations,
          rootPath, consoleLogs, consoleErrors, calls, run, runRegistered,
          lastCall, provided>>

(***************************************************************************)
(* Bounds.                                                                 *)
(***************************************************************************)
NumInv == 2
MaxCalls == 5

Invocations == 1..NumInv

(***************************************************************************)
(* JavaScript values.  A value is a record tagged with its typeof; an      *)
(* object carries its own record, whose DOMAIN is the set of keys present. *)
(***************************************************************************)
Undefined == [t |-> "undefined"]
Null == [t |-> "null"]
Bool(b) == [t |-> "boolean", b |-> b]
Num(n) == [t |-> "number", n |-> n]
Str(s) == [t |-> "string", s |-> s]
Obj(o) == [t |-> "object", o |-> o]

\* `!!v`
ToBoolean(v) ==
    CASE v.t = "undefined" -> FALSE
      [] v.t = "null" -> FALSE
      [] v.t = "boolean" -> v.b
      [] v.t = "number" -> v.n # 0
      [] v.t = "string" -> v.s # ""
      [] v.t = "object" -> TRUE

Keys == {"tasks", "rust-client.channel"}

\* a tasks.json a user wrote by hand
UserTasks == Obj([version |-> "0.1.0", command |-> "make"])

TasksInitValues ==
    {Undefined, Null, Bool(FALSE), Num(0), Str(""),
     Bool(TRUE), Num(1), Str("x"), UserTasks}

(***************************************************************************)
(* The configuration writer.                                               *)
(***************************************************************************)
MsgHasOtherTasks == "tasks.json has other tasks. Any tasks are not added."
MsgCouldNotUpdate == "Could not update tasks.json. Any tasks are not added."
MsgAdded == "Added default build tasks for Rust"

\* getConfiguration(): the snapshot and `!!config['tasks']`
getConfiguration ==
    [config |-> store, hasOtherTasks |-> ToBoolean(store["tasks"])]

\* createDefaultTaskConfig with the run and test entries exchanged
createDefaultTaskConfigSwapped ==
    Obj([version |-> "2.0.0",
         presentation |-> [reveal |-> "always", panel |-> "new"],
         tasks |-> <<
            [taskName |-> "cargo build", type |-> "shell", command |-> "cargo",
             args |-> <<"build">>, group |-> "build", problemMatcher |-> "$rustc"],
            [taskName |-> "cargo test", type |-> "shell", command |-> "cargo",
             args |-> <<"test">>, group |-> "test", problemMatcher |-> "$rustc"],
            [taskName |-> "cargo run", type |-> "shell", command |-> "cargo",
             args |-> <<"run">>, problemMatcher |-> "$rustc"],
            [taskName |-> "cargo clean", type |-> "shell", command |-> "cargo",
             args |-> <<"clean">>]
         >>])

createDefaultTaskConfig ==
    Obj([version |-> "2.0.0",
         presentation |-> [reveal |-> "always", panel |-> "new"],
         tasks |-> <<
            [taskName |-> "cargo build", type |-> "shell", command |-> "cargo",
             args |-> <<"build">>, group |-> "build", problemMatcher |-> "$rustc"],
            [taskName |-> "cargo run", type |-> "shell", command |-> "cargo",
             args |-> <<"run">>, problemMatcher |-> "$rustc"],
            [taskName |-> "cargo test", type |-> "shell", command |-> "cargo",
             args |-> <<"test">>, group |-> "test", problemMatcher |-> "$rustc"],
            [taskName |-> "cargo clean", type |-> "shell", command |-> "cargo",
             args |-> <<"clean">>]
         >>])

\* the arguments of the one config.update call addBuildCommands makes
updateRequest ==
    [key |-> "tasks", value |-> createDefaultTaskConfig, isGlobal |-> FALSE]

NoRequest == [key |-> "", value |-> Undefined, isGlobal |-> FALSE]

IdleInvocation ==
    [pc |-> "idle", entry |-> "none", seen |-> Undefined, request |-> NoRequest,
     outcome |-> "none", updates |-> 0, errors |-> 0, shown |-> <<>>,
     exception |-> FALSE, ret |-> [kind |-> "pending", msg |-> ""]]

\* window.showInformationMessage(m) followed by `return Promise.resolve(...)`:
\* the message is displayed now, the function returns once it settles
showAndReturn(r, m) ==
    [r EXCEPT !.shown = Append(@, m), !.pc = "awaitMessage"]

\* the catch block without its return: control falls through to the
\* statement after the try block
catchBlockFallsThrough(r) ==
    [r EXCEPT !.errors = @ + 1,
              !.shown = @ \o <<MsgCouldNotUpdate, MsgAdded>>,
              !.pc = "awaitMessage"]

\* the catch block of addBuildCommands
catchBlock(r) ==
    showAndReturn([r EXCEPT !.errors = @ + 1], MsgCouldNotUpdate)

\* the statement after the try block of addBuildCommands
afterTry(r) ==
    showAndReturn(r, MsgAdded)

\* addBuildCommands up to its await: the host either throws out of
\* config.update or hands back a thenable
addBuildCommands(r, hostThrows) ==
    LET called == [r EXCEPT !.updates = @ + 1, !.request = updateRequest]
    IN  IF hostThrows
        THEN catchBlock([called EXCEPT !.outcome = "threw"])
        ELSE [called EXCEPT !.pc = "awaitUpdate"]

Started(i, entry) ==
    [inv[i] EXCEPT !.entry = entry, !.seen = getConfiguration.config["tasks"]]

AddBuildCommandsOnOpeningProject(i) ==
    /\ inv[i].pc = "idle"
    /\ \E hostThrows \in BOOLEAN :
         LET r == Started(i, "OnOpeningProject")
             next == IF getConfiguration.hasOtherTasks
                     THEN [r EXCEPT !.pc = "done",
                                    !.ret = [kind |-> "undefined", msg |-> ""]]
                     ELSE addBuildCommands(r, hostThrows)
         IN  /\ inv' = [inv EXCEPT ![i] = next]
             /\ updateLog' = IF next.updates > 0
                             THEN Append(updateLog, next.request)
                             ELSE updateLog
    /\ UNCHANGED <<store, overwrote>>
    /\ UNCHANGED providerVars

AddBuildCommandsByUser(i) ==
    /\ inv[i].pc = "idle"
    /\ \E hostThrows \in BOOLEAN :
         LET r == Started(i, "ByUser")
             next == IF getConfiguration.hasOtherTasks
                     THEN showAndReturn(r, MsgHasOtherTasks)
                     ELSE addBuildCommands(r, hostThrows)
         IN  /\ inv' = [inv EXCEPT ![i] = next]
             /\ updateLog' = IF next.updates > 0
                             THEN Append(updateLog, next.request)
                             ELSE updateLog
    /\ UNCHANGED <<store, overwrote>>
    /\ UNCHANGED providerVars

\* the host carries out the write and fulfils the thenable of config.update
HostUpdateFulfils(i) ==
    /\ inv[i].pc = "awaitUpdate"
    /\ store' = [store EXCEPT ![inv[i].request.key] = inv[i].request.value]
    /\ overwrote' = (overwrote \/ store[inv[i].request.key] # Undefined)
    /\ inv' = [inv EXCEPT ![i] = [@ EXCEPT !.pc = "resume", !.outcome = "fulfilled"]]
    /\ UNCHANGED updateLog
    /\ UNCHANGED providerVars

\* the host fails the write and rejects the thenable of config.update
HostUpdateRejects(i) ==
    /\ inv[i].pc = "awaitUpdate"
    /\ inv' = [inv EXCEPT ![i] = [@ EXCEPT !.pc = "resume", !.outcome = "rejected"]]
    /\ UNCHANGED <<store, updateLog, overwrote>>
    /\ UNCHANGED providerVars

\* addBuildCommands from its await on
ResumeAddBuildCommands(i) ==
    /\ inv[i].pc = "resume"
    /\ inv' = [inv EXCEPT ![i] = IF inv[i].outcome = "rejected"
                                 THEN catchBlock(@)
                                 ELSE afterTry(@)]
    /\ UNCHANGED <<store, updateLog, overwrote>>
    /\ UNCHANGED providerVars

\* the notification settles and the async function returns its result
NotificationSettles(i) ==
    /\ inv[i].pc = "awaitMessage"
    /\ inv' = [inv EXCEPT ![i] =
                 [@ EXCEPT !.pc = "done",
                           !.ret = [kind |-> "resultOf",
                                    msg |-> inv[i].shown[Len(inv[i].shown)]]]]
    /\ UNCHANGED <<store, updateLog, overwrote>>
    /\ UNCHANGED providerVars

ProviderIdle ==
    /\ taskProvider = 0
    /\ hostRegistrations = <<>>
    /\ rootPath = Undefined
    /\ consoleLogs = 0
    /\ consoleErrors = 0
    /\ calls = 0
    /\ run = 0
    /\ runRegistered = 0
    /\ lastCall = [made |-> FALSE, root |-> Undefined, result |-> <<>>,
                   errors |-> 0, tasks |-> 0, executions |-> 0]
    /\ provided = {}

InitWriter ==
    /\ \E v \in TasksInitValues :
         store = [k \in Keys |-> IF k = "tasks" THEN v ELSE Str("stable")]
    /\ updateLog = <<>>
    /\ overwrote = FALSE
    /\ inv = [i \in Invocations |-> IdleInvocation]
    /\ ProviderIdle

NextWriter ==
    \E i \in Invocations :
        \/ AddBuildCommandsOnOpeningProject(i)
        \/ AddBuildCommandsByUser(i)
        \/ HostUpdateFulfils(i)
        \/ HostUpdateRejects(i)
        \/ ResumeAddBuildCommands(i)
        \/ NotificationSettles(i)

SpecWriter == InitWriter /\ [][NextWriter]_vars

(***************************************************************************)
(* The task provider.                                                      *)
(***************************************************************************)
\* the members of vscode's TaskGroup, TaskRevealKind and TaskPanelKind used here
TaskGroup == [Build |-> [id |-> "build"], Test |-> [id |-> "test"],
              Clean |-> [id |-> "clean"]]
TaskRevealKind == [Always |-> "TaskRevealKind.Always"]
TaskPanelKind == [New |-> "TaskPanelKind.New"]

Roots == {Undefined, Str("/proj"), Str("/home/u/app")}

RECURSIVE join(_, _)
\* Array.prototype.join
join(arr, sep) ==
    IF arr = <<>> THEN ""
    ELSE IF Len(arr) = 1 THEN arr[1]
    ELSE arr[1] \o sep \o join(Tail(arr), sep)

\* the literal table of getCargoTasks
taskList ==
    LET problemMatcher == <<"$rustc">>
        presentationOptions == [reveal |-> TaskRevealKind.Always,
                                panel |-> TaskPanelKind.New]
    IN  << [definition |-> [taskName |-> "cargo build", type |-> "shell",
                            command |-> "cargo", args |-> <<"build">>],
            problemMatcher |-> problemMatcher,
            group |-> TaskGroup.Build,
            presentationOptions |-> presentationOptions],
           [definition |-> [taskName |-> "cargo run", type |-> "shell",
                            command |-> "cargo", args |-> <<"run">>],
            problemMatcher |-> problemMatcher,
            group |-> TaskGroup.Build,
            presentationOptions |-> presentationOptions],
           [definition |-> [taskName |-> "cargo test", type |-> "shell",
                            command |-> "cargo", args |-> <<"test">>],
            problemMatcher |-> problemMatcher,
            group |-> TaskGroup.Test,
            presentationOptions |-> presentationOptions],
           [definition |-> [taskName |-> "cargo clean", type |-> "shell",
                            command |-> "cargo", args |-> <<"clean">>],
            group |-> TaskGroup.Clean,
            presentationOptions |-> presentationOptions] >>

\* createTask with the space between command and arguments left out
createTaskNoSpace(root, item) ==
    LET definition == item.definition
        execCmd == definition.command \o join(definition.args, " ")
        exec == [commandLine |-> execCmd, options |-> [cwd |-> root]]
    IN  [definition |-> definition,
         name |-> definition.taskName,
         source |-> "Rust",
         execution |-> exec,
         problemMatchers |-> IF "problemMatcher" \in DOMAIN item
                             THEN item.problemMatcher ELSE <<>>,
         group |-> item.group,
         presentationOptions |-> item.presentationOptions]

\* createTask: one ShellExecution and one Task; group and presentationOptions
\* are set on the task only when the item has them
createTask(root, item) ==
    LET definition == item.definition
        execCmd == definition.command \o " " \o join(definition.args, " ")
        exec == [commandLine |-> execCmd, options |-> [cwd |-> root]]
        t == [definition |-> definition,
              name |-> definition.taskName,
              source |-> "Rust",
              execution |-> exec,
              problemMatchers |-> IF "problemMatcher" \in DOMAIN item
                                  THEN item.problemMatcher ELSE <<>>]
        withGroup == IF "group" \in DOMAIN item
                     THEN t @@ [group |-> item.group] ELSE t
    IN  IF "presentationOptions" \in DOMAIN item
        THEN withGroup @@ [presentationOptions |-> item.presentationOptions]
        ELSE withGroup

\* getCargoTasks without the test of rootPath against undefined
getCargoTasksNoRootCheck(root) ==
    LET cwd == IF root = Undefined THEN "undefined" ELSE root.s
    IN  [list |-> [i \in 1..Len(taskList) |-> createTask(cwd, taskList[i])],
         errors |-> 0,
         created |-> Len(taskList)]

\* getCargoTasks with workspace.rootPath = root: the list returned, the
\* console.error lines written and the createTask calls made
getCargoTasks(root) ==
    IF root = Undefined
    THEN [list |-> <<>>, errors |-> 1, created |-> 0]
    ELSE [list |-> [i \in 1..Len(taskList) |-> createTask(root.s, taskList[i])],
          errors |-> 0,
          created |-> Len(taskList)]

\* an undisposed registration of the host's registry
Live(n) == hostRegistrations[n].disposeCalls = 0

LiveRegistrations == {n \in 1..Len(hostRegistrations) : Live(n)}

ActivateTaskProvider ==
    /\ calls < MaxCalls
    /\ calls' = calls + 1
    /\ run' = run + 1
    /\ IF taskProvider # 0
       THEN /\ consoleLogs' = consoleLogs + 1
            /\ runRegistered' = runRegistered
            /\ UNCHANGED <<taskProvider, hostRegistrations>>
       ELSE /\ hostRegistrations' =
                  Append(hostRegistrations, [kind |-> "rust", disposeCalls |-> 0])
            /\ taskProvider' = Len(hostRegistrations')
            /\ runRegistered' = runRegistered + 1
            /\ UNCHANGED consoleLogs
    /\ UNCHANGED <<rootPath, consoleErrors, lastCall, provided>>
    /\ UNCHANGED writerVars

DeactivateTaskProvider ==
    /\ calls < MaxCalls
    /\ calls' = calls + 1
    /\ run' = 0
    /\ runRegistered' = 0
    /\ IF taskProvider # 0
       THEN hostRegistrations' =
                [hostRegistrations EXCEPT ![taskProvider].disposeCalls = @ + 1]
       ELSE UNCHANGED hostRegistrations
    /\ UNCHANGED <<taskProvider, rootPath, consoleLogs, consoleErrors, lastCall,
                   provided>>
    /\ UNCHANGED writerVars

\* the host asks a registered provider for its tasks
ProvideTasks ==
    /\ calls < MaxCalls
    /\ LiveRegistrations # {}
    /\ calls' = calls + 1
    /\ LET got == getCargoTasks(rootPath)
       IN  /\ lastCall' = [made |-> TRUE, root |-> rootPath, result |-> got.list,
                           errors |-> got.errors, tasks |-> got.created,
                           executions |-> got.created]
           /\ consoleErrors' = consoleErrors + got.errors
           /\ provided' = provided \cup {[root |-> rootPath, result |-> got.list]}
    /\ UNCHANGED <<taskProvider, hostRegistrations, rootPath, consoleLogs, run,
                   runRegistered>>
    /\ UNCHANGED writerVars

\* the user opens or closes a folder
ChangeRoot ==
    /\ \E r \in Roots \ {rootPath} : rootPath' = r
    /\ UNCHANGED <<taskProvider, hostRegistrations, consoleLogs, consoleErrors,
                   calls, run, runRegistered, lastCall, provided>>
    /\ UNCHANGED writerVars

InitProvider ==
    /\ store = [k \in Keys |-> IF k = "tasks" THEN Undefined ELSE Str("stable")]
    /\ updateLog = <<>>
    /\ overwrote = FALSE
    /\ inv = [i \in Invocations |-> IdleInvocation]
    /\ taskProvider = 0
    /\ hostRegistrations = <<>>
    /\ rootPath \in Roots
    /\ consoleLogs = 0
    /\ consoleErrors = 0
    /\ calls = 0
    /\ run = 0
    /\ runRegistered = 0
    /\ lastCall = [made |-> FALSE, root |-> Undefined, result |-> <<>>,
                   errors |-> 0, tasks |-> 0, executions |-> 0]
    /\ provided = {}

NextProvider ==
    \/ ActivateTaskProvider
    \/ DeactivateTaskProvider
    \/ ProvideTasks
    \/ ChangeRoot

SpecProvider == InitProvider /\ [][NextProvider]_vars

(***************************************************************************)
(* Properties of the configuration writer (checked under SpecWriter).      *)
(***************************************************************************)
\* the block of section 6 of the specification, written out independently
FixedBlock ==
    [t |-> "object",
     o |-> [version |-> "2.0.0",
            presentation |-> [reveal |-> "always", panel |-> "new"],
            tasks |-> <<
               [taskName |-> "cargo build", type |-> "shell", command |-> "cargo",
                args |-> <<"build">>, group |-> "build", problemMatcher |-> "$rustc"],
               [taskName |-> "cargo run", type |-> "shell", command |-> "cargo",
                args |-> <<"run">>, problemMatcher |-> "$rustc"],
               [taskName |-> "cargo test", type |-> "shell", command |-> "cargo",
                args |-> <<"test">>, group |-> "test", problemMatcher |-> "$rustc"],
               [taskName |-> "cargo clean", type |-> "shell", command |-> "cargo",
                args |-> <<"clean">>] >>]]

ResultOf(m) == [kind |-> "resultOf", msg |-> m]

\* C1: an invocation that found "tasks" holding any value at all (falsy
\* values included) calls config.update never and leaves the store as it
\* found it; OnOpeningProject then shows nothing and returns undefined,
\* ByUser shows the 'has other tasks' notification and returns its result.
C1_AnyValueBlocksWrite ==
    \A i \in Invocations :
        (inv[i].pc # "idle" /\ inv[i].seen # Undefined) =>
            /\ inv[i].updates = 0
            /\ inv[i].request = NoRequest
            /\ store["tasks"] = inv[i].seen
            /\ inv[i].entry = "OnOpeningProject" =>
                  /\ inv[i].shown = <<>>
                  /\ inv[i].pc = "done"
                  /\ inv[i].ret = [kind |-> "undefined", msg |-> ""]
            /\ inv[i].entry = "ByUser" =>
                  /\ inv[i].shown =
                        <<"tasks.json has other tasks. Any tasks are not added.">>
                  /\ inv[i].pc = "done" =>
                        inv[i].ret =
                          ResultOf("tasks.json has other tasks. Any tasks are not added.")

\* C2: an invocation that found no "tasks" key and whose write the host
\* fulfilled made one config.update("tasks", <the fixed block>, false) call,
\* the store holds exactly the fixed block under "tasks" (and the other key
\* is untouched), and 'Added default build tasks for Rust' is the only
\* message it displays and the one whose result it returns.
C2_AbsentKeyGetsFixedBlock ==
    \A i \in Invocations :
        (inv[i].seen = Undefined /\ inv[i].outcome = "fulfilled") =>
            /\ store["tasks"] = FixedBlock
            /\ store["rust-client.channel"] = Str("stable")
            /\ inv[i].updates = 1
            /\ inv[i].request =
                  [key |-> "tasks", value |-> FixedBlock, isGlobal |-> FALSE]
            /\ inv[i].errors = 0
            /\ inv[i].pc \in {"awaitMessage", "done"} =>
                  inv[i].shown = <<"Added default build tasks for Rust">>
            /\ inv[i].pc = "resume" => inv[i].shown = <<>>
            /\ inv[i].pc = "done" =>
                  inv[i].ret = ResultOf("Added default build tasks for Rust")

\* an invocation that started from a store without "tasks", was fulfilled
\* and has returned
C2_Witness ==
    \E i \in Invocations :
        /\ inv[i].seen = Undefined
        /\ inv[i].entry # "none"
        /\ inv[i].outcome = "fulfilled"
        /\ inv[i].pc = "done"

\* C3: an invocation whose config.update threw or was rejected logs the
\* error once, displays 'Could not update tasks.json. Any tasks are not
\* added.' and nothing else, returns that notification's result, has called
\* config.update exactly once, and lets no exception out.
C3_UpdateFailureIsReportedOnce ==
    \A i \in Invocations :
        /\ inv[i].exception = FALSE
        /\ inv[i].updates <= 1
        /\ inv[i].outcome = "threw" => inv[i].pc \in {"awaitMessage", "done"}
        /\ (inv[i].outcome \in {"threw", "rejected"}
              /\ inv[i].pc \in {"awaitMessage", "done"}) =>
            /\ inv[i].errors = 1
            /\ inv[i].updates = 1
            /\ inv[i].shown =
                  <<"Could not update tasks.json. Any tasks are not added.">>
            /\ inv[i].pc = "done" =>
                  inv[i].ret =
                    ResultOf("Could not update tasks.json. Any tasks are not added.")

\* one invocation has returned after a synchronous throw, another after a
\* rejection
C3_Witness ==
    \E i, j \in Invocations :
        /\ inv[i].outcome = "threw" /\ inv[i].pc = "done"
        /\ inv[j].outcome = "rejected" /\ inv[j].pc = "done"

\* C10: no config.update call is issued while another one is in flight, the
\* host carries out at most one write of "tasks", and no write replaces a
\* "tasks" value that is present.  Stated for
\* the stores every invocation found either without "tasks" or with a
\* truthy value, where the truthiness test of getConfiguration plays no part.
C10_WritesOnceOnlyWhileAbsent ==
    (\A i \in Invocations : inv[i].seen = Undefined \/ ToBoolean(inv[i].seen)) =>
        /\ Cardinality({i \in Invocations : inv[i].pc = "awaitUpdate"}) <= 1
        /\ Cardinality({i \in Invocations : inv[i].outcome = "fulfilled"}) <= 1
        /\ ~overwrote

(***************************************************************************)
(* Properties of the task provider (checked under SpecProvider).           *)
(***************************************************************************)
\* C4: the handle is non-null exactly when the host holds an undisposed
\* registration (Registered), and null exactly when it holds none
\* (Unregistered).
C4_HandleIffLiveRegistration ==
    (taskProvider # 0) <=> (LiveRegistrations # {})

\* C5: after n >= 1 consecutive activateTaskProvider calls with no
\* deactivateTaskProvider in between, those calls made exactly one
\* registerTaskProvider('rust', ...) call and exactly one live registration
\* is held; at most one live registration exists in any state.
C5_ActivateRegistersExactlyOnce ==
    /\ Cardinality(LiveRegistrations) <= 1
    /\ run >= 1 =>
          /\ runRegistered = 1
          /\ Cardinality(LiveRegistrations) = 1
          /\ taskProvider \in LiveRegistrations
          /\ hostRegistrations[taskProvider].kind = "rust"

\* C6: no host registration is disposed more than once.
C6_DisposedAtMostOnce ==
    \A n \in 1..Len(hostRegistrations) : hostRegistrations[n].disposeCalls <= 1

ExpectedNames == <<"cargo build", "cargo run", "cargo test", "cargo clean">>
ExpectedArgs == <<"build", "run", "test", "clean">>

\* C7: provideTasks with a defined root returns four descriptors, named
\* cargo build, cargo run, cargo test, cargo clean in that order, each with
\* command "cargo" and its one argument; with an undefined root it logs one
\* error, returns the empty list and constructs no task and no shell
\* execution; and no root has ever produced two different results.
C7_ProvideTasksResult ==
    /\ lastCall.made =>
          IF lastCall.root # Undefined
          THEN /\ Len(lastCall.result) = 4
               /\ lastCall.errors = 0
               /\ \A i \in 1..4 :
                     /\ lastCall.result[i].name = ExpectedNames[i]
                     /\ lastCall.result[i].definition.taskName = ExpectedNames[i]
                     /\ lastCall.result[i].definition.command = "cargo"
                     /\ lastCall.result[i].definition.args = <<ExpectedArgs[i]>>
          ELSE /\ lastCall.result = <<>>
               /\ lastCall.errors = 1
               /\ lastCall.tasks = 0
               /\ lastCall.executions = 0
    /\ \A p, q \in provided : p.root = q.root => p.result = q.result

\* provideTasks has run with an undefined root and with two defined ones,
\* the last call being one with a defined root
C7_Witness ==
    /\ lastCall.made
    /\ lastCall.root # Undefined
    /\ \E p \in provided : p.root = Undefined
    /\ Cardinality({p.root : p \in provided}) = 3

\* one runtime descriptor against the persisted entry of the same position
Mirrors(t, j) ==
    /\ t.name = j.taskName
    /\ t.definition.taskName = j.taskName
    /\ t.definition.command = j.command
    /\ t.definition.args = j.args
    /\ IF "problemMatcher" \in DOMAIN j
       THEN t.problemMatchers = <<j.problemMatcher>>
       ELSE t.problemMatchers = <<>>
    /\ t.presentationOptions =
          [reveal |-> TaskRevealKind.Always, panel |-> TaskPanelKind.New]
    /\ IF j.taskName = "cargo clean"
       THEN "group" \in DOMAIN t /\ t.group = TaskGroup.Clean
       ELSE IF "group" \in DOMAIN j
            THEN "group" \in DOMAIN t /\ t.group.id = j.group
            ELSE "group" \notin DOMAIN t

\* C8: apart from presentationOptions on every descriptor and group Clean
\* on the clean task, each descriptor provideTasks returns agrees with the
\* persisted entry of createDefaultTaskConfig in name, command, args,
\* problem matcher and group.
C8_RuntimeMirrorsPersisted ==
    (lastCall.made /\ lastCall.root # Undefined) =>
        /\ Len(lastCall.result) = Len(createDefaultTaskConfig.o.tasks)
        /\ \A i \in 1..Len(lastCall.result) :
              Mirrors(lastCall.result[i], createDefaultTaskConfig.o.tasks[i])

\* C9: every descriptor returned for root r has as command line one of the
\* literals "cargo build", "cargo run", "cargo test", "cargo clean" (by
\* position), working directory r, its definition's taskName as name and
\* 'Rust' as source.
C9_CommandLineAndCwd ==
    (lastCall.made /\ lastCall.root # Undefined) =>
        /\ Len(lastCall.result) = 4
        /\ \A i \in 1..4 :
              LET t == lastCall.result[i]
              IN  /\ t.execution.commandLine = ExpectedNames[i]
                  /\ t.execution.options.cwd = lastCall.root.s
                  /\ t.name = t.definition.taskName
                  /\ t.source = "Rust"

\* provideTasks has just returned the descriptors for "/home/u/app"
C9_Witness ==
    /\ lastCall.made
    /\ lastCall.root = Str("/home/u/app")
    /\ Len(lastCall.result) = 4

====
